---- MODULE Spec2Model ----
(***************************************************************************)
(* Model of test-servers/simple_mcp_server.py: a FastMCP host that         *)
(* registers two tools, echo and add, and serves them over streamable HTTP *)
(* on 127.0.0.1:8000 when the file is run as the main entry point.         *)
(*                                                                         *)
(* Values are tagged so that a JSON string and a JSON integer stay         *)
(* distinct: [t |-> "str", v |-> <<chars>>] and [t |-> "int", v |-> n].     *)
(* A string is a sequence of one-character strings.                        *)
(*                                                                         *)
(* The file holds no code for looking a tool up, validating arguments or   *)
(* building an error response: that is done inside the fastmcp package by  *)
(* mcp.run(). Respond and the operators it uses below model that part from *)
(* the specification's description of it. Whether a compatible value of    *)
(* the wrong type (the string "2" for an int) is coerced or refused is a   *)
(* setting of that package the file does not choose, so Handle takes both. *)
(***************************************************************************)
EXTENDS Integers, Sequences, FiniteSets, TLC

VARIABLES
    pc,        \* position in the module's top-level code / host lifecycle
    name,      \* value of __name__ for this load of the file
    registry,  \* mcp's tool registry: tool name -> tool descriptor
    listener,  \* the endpoint mcp.run() was asked to bind, and how that went
    slots,     \* requests in flight: slot -> [st, req, resp]
    refused    \* history: "no"; "yes" once a request naming an unknown tool has
               \* been refused; "served" once a call has been answered after that

vars == <<pc, name, registry, listener, slots, refused>>

----------------------------------------------------------------------------
(* Bounds of the model *)

NumSlots == 2
MaxStrLen == 1
MaxInt == 1

(* Program constants *)

Host == "127.0.0.1"
Port == 8000
Transport == "streamable-http"

----------------------------------------------------------------------------
(* Values *)

Alphabet == {"h", "2"}
Digits == {"2"}

Strings == UNION {[1..n -> Alphabet] : n \in 0..MaxStrLen}
Ints == (0 - MaxInt)..MaxInt

StrVal(s) == [t |-> "str", v |-> s]
IntVal(n) == [t |-> "int", v |-> n]
None == [t |-> "none", v |-> 0]

StrValues == {StrVal(s) : s \in Strings}
IntValues == {IntVal(n) : n \in Ints}

----------------------------------------------------------------------------
(* The two tool functions *)

EchoPrefix == <<"E", "c", "h", "o", ":", " ">>

DigitChar(d) ==
    CASE d = 0 -> "0" [] d = 1 -> "1" [] d = 2 -> "2" [] d = 3 -> "3"
      [] d = 4 -> "4" [] d = 5 -> "5" [] d = 6 -> "6" [] d = 7 -> "7"
      [] d = 8 -> "8" [] d = 9 -> "9"

RECURSIVE NatToStr(_)
NatToStr(n) ==
    IF n < 10 THEN <<DigitChar(n)>>
    ELSE NatToStr(n \div 10) \o <<DigitChar(n % 10)>>

IntToStr(n) == IF n < 0 THEN <<"-">> \o NatToStr(0 - n) ELSE NatToStr(n)

\* The replacement field {message} of the f-string: format(message, ""),
\* which is str(message): a str is kept as it is, an int is written in decimal.
Format(message) ==
    IF message.t = "str" THEN message.v ELSE IntToStr(message.v)

\* A slip in the literal: the space after the colon is lost.
echo_nospace(message) == StrVal(<<"E", "c", "h", "o", ":">> \o Format(message))

\* The prefix depends on module-level state that other requests change.
echo_stateful(message) ==
    StrVal((IF refused # "no" THEN <<"e", "c", "h", "o", ":", " ">> ELSE EchoPrefix)
               \o Format(message))

\* def echo(message: str) -> str: return f"Echo: {message}"
echo(message) == StrVal(EchoPrefix \o Format(message))

\* The sum kept in a two-bit two's complement word.
add_wrapped(a, b) == IntVal(((a.v + b.v + 2) % 4) - 2)

\* A sum of zero is falsy: "return a + b or None".
add_falsy(a, b) == IF a.v + b.v = 0 THEN None ELSE IntVal(a.v + b.v)

\* def add(a: int, b: int) -> int: return a + b   (Python ints are unbounded)
add(a, b) == IntVal(a.v + b.v)

\* A parameter as inspect.signature gives it: no default means required.
Param(n, ty) == [pname |-> n, ptype |-> ty, default |-> None]

\* The signatures.
EchoParams == <<Param("message", "str")>>

\* b given a default: def add(a: int, b: int = 0).
AddParams_b_default ==
    <<Param("a", "int"), [pname |-> "b", ptype |-> "int", default |-> IntVal(0)]>>

AddParams == <<Param("a", "int"), Param("b", "int")>>

\* What @mcp.tool() registers for each function: the function under its name.
EchoTool == [fn |-> "echo", params |-> EchoParams]

\* add registered under another name.
AddTool_multiply == [fn |-> "multiply", params |-> AddParams]

AddTool == [fn |-> "add", params |-> AddParams]

\* Calling a registered function with its bound arguments.
CallFn(fn, bound) ==
    IF fn = "echo" THEN echo(bound["message"])
    ELSE add(bound["a"], bound["b"])

----------------------------------------------------------------------------
(* Requests: an operation name and a mapping of named arguments *)

Req(n, a) == [name |-> n, args |-> a]

NoArgs == [k \in {} |-> None]

\* Values of the wrong type for an int parameter: "", "2" and "h".
NonInts == {StrVal(<<>>), StrVal(<<"2">>), StrVal(<<"h">>)}

EchoReqs ==
    {Req("echo", [k \in {"message"} |-> m]) : m \in StrValues \cup {IntVal(0)}}
    \cup {Req("echo", NoArgs)}

AddReqs ==
    {Req("add", [k \in {"a", "b"} |-> IF k = "a" THEN x ELSE y]) :
        x \in IntValues, y \in IntValues}
    \cup {Req("add", [k \in {"a", "b"} |-> IF k = "a" THEN x ELSE IntVal(1)]) :
        x \in NonInts}
    \cup {Req("add", [k \in {"a", "b"} |-> IF k = "a" THEN IntVal(1) ELSE y]) :
        y \in NonInts}
    \cup {Req("add", [k \in {"a"} |-> IntVal(1)]),
          Req("add", [k \in {"b"} |-> IntVal(1)]),
          Req("add", NoArgs)}

OtherReqs == {Req("multiply", [k \in {"a", "b"} |-> IntVal(1)])}

Requests == EchoReqs \cup AddReqs \cup OtherReqs

----------------------------------------------------------------------------
(* Responses: a result member or an error member *)

Success(val) == [result |-> val, error |-> None]
Error(reason) == [result |-> None, error |-> [t |-> "reason", v |-> reason]]

NoReq == Req("", NoArgs)
NoResp == [result |-> None, error |-> None]
Idle == [st |-> "idle", req |-> NoReq, resp |-> NoResp]

Slots == 1..NumSlots

Unbound == [state |-> "unbound", host |-> "", port |-> 0, transport |-> ""]

----------------------------------------------------------------------------
(* Looking up the tool and validating the arguments against its signature *)

IsDigits(s) == Len(s) > 0 /\ \A i \in 1..Len(s) : s[i] \in Digits

DigitVal(c) == CASE c = "2" -> 2

RECURSIVE ParseInt(_)
ParseInt(s) ==
    IF Len(s) = 0 THEN 0
    ELSE ParseInt(SubSeq(s, 1, Len(s) - 1)) * 10 + DigitVal(s[Len(s)])

\* Whether val is accepted for a parameter annotated ptype. With coercion, a
\* string of decimal digits is accepted for an int.
Accepts(ptype, val, coerce) ==
    \/ val.t = ptype
    \/ coerce /\ ptype = "int" /\ val.t = "str" /\ IsDigits(val.v)

\* The value the function receives for an accepted val.
Coerce(ptype, val) ==
    IF val.t = ptype THEN val ELSE IntVal(ParseInt(val.v))

Missing(params, args) ==
    \E i \in 1..Len(params) :
        params[i].default = None /\ params[i].pname \notin DOMAIN args

BadType(params, args, coerce) ==
    \E i \in 1..Len(params) :
        /\ params[i].pname \in DOMAIN args
        /\ ~Accepts(params[i].ptype, args[params[i].pname], coerce)

ParamOf(params, k) ==
    CHOOSE p \in {params[i] : i \in 1..Len(params)} : p.pname = k

Bind(params, args) ==
    [k \in {params[i].pname : i \in 1..Len(params)} |->
        IF k \in DOMAIN args THEN Coerce(ParamOf(params, k).ptype, args[k])
        ELSE ParamOf(params, k).default]

\* The response to request r under registry reg.
Respond(reg, r, coerce) ==
    IF r.name \notin DOMAIN reg THEN Error("unknown_tool")
    ELSE IF Missing(reg[r.name].params, r.args) THEN Error("missing_argument")
    ELSE IF BadType(reg[r.name].params, r.args, coerce) THEN Error("invalid_type")
    ELSE Success(CallFn(reg[r.name].fn, Bind(reg[r.name].params, r.args)))

----------------------------------------------------------------------------
(* The module's top-level code *)

EmptyRegistry == [k \in {} |-> EchoTool]

Init ==
    /\ pc = "start"
    /\ name \in {"__main__", "simple_mcp_server"}
    /\ registry = EmptyRegistry
    /\ listener = Unbound
    /\ slots = [i \in Slots |-> Idle]
    /\ refused = "no"

\* mcp = FastMCP("TestServer")
CreateHost ==
    /\ pc = "start"
    /\ pc' = "created"
    /\ registry' = EmptyRegistry
    /\ UNCHANGED <<name, listener, slots, refused>>

\* The new tool replaces the registry instead of joining it.
Register_overwrite(reg, tool) == [k \in {tool.fn} |-> tool]

Register(reg, tool) ==
    [k \in DOMAIN reg \cup {tool.fn} |-> IF k = tool.fn THEN tool ELSE reg[k]]

\* @mcp.tool() on echo
RegisterEcho ==
    /\ pc = "created"
    /\ pc' = "echo_registered"
    /\ registry' = Register(registry, EchoTool)
    /\ UNCHANGED <<name, listener, slots, refused>>

\* @mcp.tool() on add
RegisterAdd ==
    /\ pc = "echo_registered"
    /\ pc' = "add_registered"
    /\ registry' = Register(registry, AddTool)
    /\ UNCHANGED <<name, listener, slots, refused>>

\* The guard left out: the listener is started on import too.
MainGuard_always ==
    /\ pc = "add_registered"
    /\ pc' = "run"
    /\ UNCHANGED <<name, registry, listener, slots, refused>>

\* if __name__ == "__main__": otherwise the module is loaded and nothing starts.
MainGuard ==
    /\ pc = "add_registered"
    /\ pc' = IF name = "__main__" THEN "run" ELSE "loaded"
    /\ UNCHANGED <<name, registry, listener, slots, refused>>

Endpoint(st) == [state |-> st, host |-> Host, port |-> Port, transport |-> Transport]

\* mcp.run(transport="streamable-http", host="127.0.0.1", port=8000): bound.
RunBound ==
    /\ pc = "run"
    /\ pc' = "serving"
    /\ listener' = Endpoint("listening")
    /\ UNCHANGED <<name, registry, slots, refused>>

\* The failure swallowed and the serving loop entered all the same.
RunBindFailed_serves ==
    /\ pc = "run"
    /\ pc' = "serving"
    /\ listener' = Endpoint("failed")
    /\ UNCHANGED <<name, registry, slots, refused>>

\* mcp.run(...): the bind fails. Nothing around line 25 catches the failure
\* and nothing follows it, so the process ends.
RunBindFailed ==
    /\ pc = "run"
    /\ pc' = "exited"
    /\ listener' = Endpoint("failed")
    /\ UNCHANGED <<name, registry, slots, refused>>

\* The process is terminated from outside while serving; what was in flight
\* goes with it.
Terminate ==
    /\ pc = "serving"
    /\ pc' = "terminated"
    /\ slots' = [i \in Slots |-> Idle]
    /\ UNCHANGED <<name, registry, listener, refused>>

----------------------------------------------------------------------------
(* Serving requests, any number of them in flight *)

\* A request arrives while others may still be in flight.
Receive(i, r) ==
    /\ pc = "serving"
    /\ slots[i].st = "idle"
    /\ slots' = [slots EXCEPT ![i] = [st |-> "received", req |-> r, resp |-> NoResp]]
    /\ UNCHANGED <<pc, name, registry, listener, refused>>

\* The response is stored for its request.
Answer(i, resp) ==
    /\ slots' = [slots EXCEPT ![i] = [st |-> "done", req |-> slots[i].req, resp |-> resp]]
    /\ refused' =
        IF resp.error = Error("unknown_tool").error
        THEN (IF refused = "no" THEN "yes" ELSE refused)
        ELSE IF refused = "yes" /\ Respond(registry, slots[i].req, FALSE).error = None
        THEN "served"
        ELSE refused

Handle(i) ==
    /\ pc = "serving"
    /\ slots[i].st = "received"
    /\ \E coerce \in BOOLEAN : Answer(i, Respond(registry, slots[i].req, coerce))
    /\ UNCHANGED <<pc, name, registry, listener>>

Deliver(i) ==
    /\ pc = "serving"
    /\ slots[i].st = "done"
    /\ slots' = [slots EXCEPT ![i] = Idle]
    /\ UNCHANGED <<pc, name, registry, listener, refused>>

Next ==
    \/ CreateHost
    \/ RegisterEcho
    \/ RegisterAdd
    \/ MainGuard
    \/ RunBound
    \/ RunBindFailed
    \/ Terminate
    \/ \E i \in Slots, r \in Requests : Receive(i, r)
    \/ \E i \in Slots : Handle(i)
    \/ \E i \in Slots : Deliver(i)

Spec == Init /\ [][Next]_vars

----------------------------------------------------------------------------
(* Properties *)

Done(i) == slots[i].st = "done"

\* A known name with every argument present and of the annotated type.
WellFormed(r) ==
    \/ /\ r.name = "echo"
       /\ DOMAIN r.args = {"message"}
       /\ r.args["message"].t = "str"
    \/ /\ r.name = "add"
       /\ DOMAIN r.args = {"a", "b"}
       /\ r.args["a"].t = "int"
       /\ r.args["b"].t = "int"

\* The documented result of a well-formed call.
Expected(r) ==
    IF r.name = "echo"
    THEN [t |-> "str", v |-> <<"E", "c", "h", "o", ":", " ">> \o r.args["message"].v]
    ELSE [t |-> "int", v |-> r.args["a"].v + r.args["b"].v]

IsSuccess(resp) == resp.result # None /\ resp.error = None
IsError(resp) == resp.result = None /\ resp.error # None

UnknownName(r) == r.name \notin {"echo", "add"}

OmitsRequired(r) ==
    \/ r.name = "echo" /\ "message" \notin DOMAIN r.args
    \/ r.name = "add" /\ ("a" \notin DOMAIN r.args \/ "b" \notin DOMAIN r.args)

\* Slot i's request is answered by this step.
Answered(i) == slots[i].st = "received" /\ slots'[i].st = "done"

\* C1: echo called with message = m, m any string (the empty one included),
\* returns exactly the six characters "Echo: " followed by m.
C1_EchoReturnsPrefixedMessage ==
    \A i \in Slots :
        (/\ Done(i)
         /\ slots[i].req.name = "echo"
         /\ "message" \in DOMAIN slots[i].req.args
         /\ slots[i].req.args["message"].t = "str")
        => LET m == slots[i].req.args["message"].v
               out == slots[i].resp.result
           IN  /\ slots[i].resp.error = None
               /\ out.t = "str"
               /\ Len(out.v) = 6 + Len(m)
               /\ SubSeq(out.v, 1, 6) = <<"E", "c", "h", "o", ":", " ">>
               /\ SubSeq(out.v, 7, Len(out.v)) = m

\* An empty and a non-empty message have both been echoed.
C1_Witness ==
    \E i, j \in Slots :
        /\ Done(i) /\ slots[i].req.name = "echo"
        /\ slots[i].req.args = [k \in {"message"} |-> [t |-> "str", v |-> <<>>]]
        /\ slots[i].resp.result = [t |-> "str", v |-> <<"E", "c", "h", "o", ":", " ">>]
        /\ Done(j) /\ slots[j].req.name = "echo"
        /\ slots[j].req.args = [k \in {"message"} |-> [t |-> "str", v |-> <<"h">>]]
        /\ slots[j].resp.result = [t |-> "str", v |-> <<"E", "c", "h", "o", ":", " ", "h">>]

\* C2: add called with integers a and b of any sign returns exactly a + b,
\* with no wrap-around or truncation.
C2_AddReturnsSum ==
    \A i \in Slots :
        (/\ Done(i)
         /\ slots[i].req.name = "add"
         /\ DOMAIN slots[i].req.args = {"a", "b"}
         /\ slots[i].req.args["a"].t = "int"
         /\ slots[i].req.args["b"].t = "int")
        => /\ slots[i].resp.error = None
           /\ slots[i].resp.result.t = "int"
           /\ slots[i].resp.result.v
                  = slots[i].req.args["a"].v + slots[i].req.args["b"].v

\* add(-1, 1) = 0 and a sum outside the range of the arguments, MaxInt + MaxInt.
C2_Witness ==
    \E i, j \in Slots :
        /\ Done(i) /\ slots[i].req.name = "add"
        /\ slots[i].req.args = [k \in {"a", "b"} |-> [t |-> "int", v |-> IF k = "a" THEN -1 ELSE 1]]
        /\ slots[i].resp.result = [t |-> "int", v |-> 0]
        /\ Done(j) /\ slots[j].req.name = "add"
        /\ slots[j].req.args = [k \in {"a", "b"} |-> [t |-> "int", v |-> MaxInt]]
        /\ slots[j].resp.result = [t |-> "int", v |-> 2 * MaxInt]

\* C3: a request naming an operation other than echo and add is answered with
\* an error; answering it leaves the host serving; and a well-formed echo or
\* add call answered once such a request has been refused gets its normal result.
C3_UnknownOperationRefused ==
    [][/\ \A i \in Slots :
            (Done(i)' /\ UnknownName(slots'[i].req)) => IsError(slots'[i].resp)
       /\ \A i \in Slots :
            (Answered(i) /\ UnknownName(slots[i].req)) => pc' = "serving"
       /\ \A i \in Slots :
            (Answered(i) /\ refused # "no" /\ WellFormed(slots[i].req))
            => slots'[i].resp = [result |-> Expected(slots[i].req), error |-> None]
      ]_vars

\* An unknown operation was refused, a well-formed call was answered after
\* that, and the host is serving.
C3_Witness ==
    /\ refused = "served"
    /\ pc = "serving"
    /\ \E i \in Slots :
        Done(i) /\ WellFormed(slots[i].req) /\ IsSuccess(slots[i].resp)

\* C5: a request that omits a required argument is answered with an error,
\* and answering it changes nothing but that request's own slot: the host's
\* state and the other requests and their responses stay as they were, and
\* the well-formed calls in flight have their normal results.
C5_MissingArgumentRefused ==
    [][/\ \A i \in Slots :
            (Done(i)' /\ OmitsRequired(slots'[i].req)) => IsError(slots'[i].resp)
       /\ \A i \in Slots :
            (Answered(i) /\ OmitsRequired(slots[i].req))
            => /\ pc' = pc /\ registry' = registry /\ listener' = listener
               /\ \A j \in Slots \ {i} : slots'[j] = slots[j]
       /\ \A i \in Slots :
            (Done(i)' /\ WellFormed(slots'[i].req))
            => slots'[i].resp = [result |-> Expected(slots'[i].req), error |-> None]
      ]_vars

\* A request without its argument has been refused beside a well-formed call
\* that was answered normally.
C5_Witness ==
    \E i, j \in Slots :
        /\ Done(i) /\ OmitsRequired(slots[i].req) /\ IsError(slots[i].resp)
        /\ Done(j) /\ WellFormed(slots[j].req) /\ IsSuccess(slots[j].resp)

\* C6: when binding 127.0.0.1:8000 fails, the process has exited and no
\* request is or has been accepted.
C6_BindFailureIsFatal ==
    listener.state = "failed"
        => pc = "exited" /\ \A i \in Slots : slots[i] = Idle

C6_Witness == listener.state = "failed" /\ pc = "exited"

\* C7: once the module's registrations have run, the registry maps exactly
\* the names echo and add to their functions, whatever requests have been made.
C7_RegistryIsEchoAndAdd ==
    pc \notin {"start", "created", "echo_registered"}
        => /\ DOMAIN registry = {"echo", "add"}
           /\ registry["echo"].fn = "echo"
           /\ registry["add"].fn = "add"

\* The registry after a refused and an answered request.
C7_Witness ==
    /\ pc = "serving"
    /\ DOMAIN registry = {"echo", "add"}
    /\ \E i, j \in Slots :
        /\ Done(i) /\ IsError(slots[i].resp)
        /\ Done(j) /\ IsSuccess(slots[j].resp)

\* What request r is answered when it is the only request the host gets.
Alone(r) ==
    IF WellFormed(r) THEN {[result |-> Expected(r), error |-> None]}
    ELSE {Respond(Register(Register(EmptyRegistry, EchoTool), AddTool), r, coerce) :
              coerce \in BOOLEAN}

\* C8: whatever else is in flight and in whatever order the requests are
\* handled, each response is one the request gets when sent alone: it
\* depends on the request's name and arguments only.
C8_RequestsAreIndependent ==
    \A i \in Slots : Done(i) => slots[i].resp \in Alone(slots[i].req)

\* Two different requests in flight together, answered differently, after an
\* earlier request was refused.
C8_Witness ==
    /\ refused # "no"
    /\ \E i, j \in Slots :
        /\ Done(i) /\ Done(j)
        /\ slots[i].req.name = "echo" /\ slots[j].req.name = "add"
        /\ IsSuccess(slots[i].resp) /\ IsSuccess(slots[j].resp)

\* C9: an answered invocation carries a result or an error, never both and
\* never neither, and a well-formed echo or add call carries a result.
C9_ExactlyOneOutcome ==
    \A i \in Slots :
        Done(i)
        => /\ (slots[i].resp.result = None) # (slots[i].resp.error = None)
           /\ WellFormed(slots[i].req) => IsSuccess(slots[i].resp)

\* Both outcomes have occurred.
C9_Witness ==
    \E i, j \in Slots :
        /\ Done(i) /\ IsSuccess(slots[i].resp) /\ WellFormed(slots[i].req)
        /\ Done(j) /\ IsError(slots[j].resp)

\* C10: a listener exists only when the file was launched as __main__, and
\* then on 127.0.0.1, port 8000, streamable HTTP; and a serving host leaves
\* the serving state only by being terminated from outside, never by a request.
C10_ServesOnlyAsMainUntilTerminated ==
    [][/\ (listener.state # "unbound")'
            => /\ name' = "__main__"
               /\ listener'.host = "127.0.0.1"
               /\ listener'.port = 8000
               /\ listener'.transport = "streamable-http"
       /\ (pc \in {"run", "serving"})' => name' = "__main__"
       /\ pc = "serving"
            => \/ pc' = "serving"
               \/ pc' = "terminated" /\ \A i \in Slots : ~Answered(i)
      ]_vars

\* The host is still serving after answering requests, one of them refused.
C10_Witness ==
    /\ pc = "serving"
    /\ listener = [state |-> "listening", host |-> "127.0.0.1", port |-> 8000,
                   transport |-> "streamable-http"]
    /\ refused = "served"

====
